---- MODULE Spec2Model ----
(***************************************************************************)
(* A model of calendly_license_monitor.py: one run of main() reads six     *)
(* environment variables, pages through the Calendly organization          *)
(* memberships and the Okta group members, intersects the two sets of      *)
(* lower-cased emails, picks one of two message templates and posts it to  *)
(* a Slack webhook.  The HTTP servers are the environment: every response  *)
(* is drawn from a bounded set of fixtures.                                *)
(***************************************************************************)
EXTENDS Integers, Sequences, FiniteSets, TLC

\* ------------------------------------------------------------------ bounds
\* Longest chain of pages a source serves (its continuation URLs are acyclic).
MaxPages == 3
\* Size of the bulk page fixture; with the small fixtures the number of matched
\* emails ranges over 0 .. BulkSize + 3, which straddles the 65 licenses.
BulkSize == 64
\* Number of runs of the script the several-runs specification performs, and
\* the longest chain of pages of the fixed servers it runs against.
MaxRuns == 2
WorldPages == 2

\* --------------------------------------------------------------- constants
\* Line 38: the value the module body gives TOTAL_LICENSES.
AllocatedLicenses == 65

\* ------------------------------------------------------------ Python values
\* None and str are kept apart: "" is a str, falsy like None but not None.
PyNone == [t |-> "None"]
PyStr(parts) == [t |-> "str", v |-> parts]
EmptyStr == PyStr(<<>>)
\* bool(v) for v None or a str.
Truthy(v) == v # PyNone /\ v # EmptyStr
\* The literal {} and dict.get(key, default).
EmptyDict == [k \in {} |-> k]
DictGet(d, k, default) == IF k \in DOMAIN d THEN d[k] ELSE default

\* An email left as spelled: the .lower() forgotten.
Lower_asis(s) == s

\* An email is a string of ASCII codes; str.lower() maps 'A'..'Z' to 'a'..'z'.
LowerChar(c) == IF c \in 65..90 THEN c + 32 ELSE c
Lower(s) == <<>> \o [i \in 1..Len(s) |-> LowerChar(s[i])]

\* A raise_for_status that lets the 4xx answers through.
RaisesForStatus_5xx(status_code) == status_code >= 500 /\ status_code < 600

\* requests.Response.raise_for_status(): 4xx and 5xx raise HTTPError.
RaisesForStatus(status_code) == status_code >= 400 /\ status_code < 600

\* ------------------------------------------------------- environment names
EnvNames == {"CALENDLY_API_TOKEN", "CALENDLY_ORG_URL", "OKTA_API_TOKEN",
             "OKTA_BASE_URL", "OKTA_CALENDLY_GROUP_ID", "SLACK_WEBHOOK_URL"}
\* What os.getenv may return for one name: None (absent), "" or a value.
EnvValues == {PyNone, EmptyStr, PyStr(<<"set">>)}

\* --------------------------------------------------------------- fixtures
\* "a@x", "A@x", "a@X", "b@X", "b@x", "c@x"
Email_a == <<97, 64, 120>>
Email_A == <<65, 64, 120>>
Email_aX == <<97, 64, 88>>
Email_bX == <<98, 64, 88>>
Email_b == <<98, 64, 120>>
Email_c == <<99, 64, 120>>
\* The i-th bulk email as Calendly spells it ("ka@x", "kb@x", ...) and as Okta
\* spells it ("KA@X", "KB@X", ...).
BulkLower(i) == <<107 + (i \div 26), 97 + (i % 26), 64, 120>>
BulkUpper(i) == <<75 + (i \div 26), 65 + (i % 26), 64, 88>>

Member(email) == [user |-> [email |-> email]]
OktaUser(email, status) == [profile |-> [email |-> email], status |-> status]

\* The bulk pages: BulkSize members, in Okta alternately SUSPENDED and ACTIVE.
BulkCollection == <<>> \o [i \in 1..BulkSize |-> Member(BulkLower(i - 1))]
BulkBody ==
    <<>> \o [i \in 1..BulkSize |->
                OktaUser(BulkUpper(i - 1), IF i % 2 = 0 THEN "ACTIVE" ELSE "SUSPENDED")]

\* The "collection" of one Calendly page.
CalendlyCollections ==
    { <<>>,
      <<Member(Email_A), Member(Email_a)>>,
      <<Member(Email_bX), Member(Email_c)>>,
      BulkCollection }

\* The body of one Okta page: a list of users, ACTIVE or SUSPENDED.
OktaBodies ==
    { <<>>,
      <<OktaUser(Email_aX, "ACTIVE"), OktaUser(Email_A, "SUSPENDED")>>,
      <<OktaUser(Email_b, "SUSPENDED")>>,
      <<OktaUser(Email_b, "ACTIVE"), OktaUser(Email_c, "ACTIVE")>>,
      BulkBody }

StatusCodes == {200, 404, 503}

\* A value inside an f-string: None is rendered as the text None.
Fmt(v) == IF v = PyNone THEN <<"None">> ELSE v.v

\* The URLs the fetchers build from their arguments (lines 44 and 59).
CalendlyStartUrl(calendly_org_url) ==
    PyStr(<<"https://api.calendly.com/organization_memberships?organization=">>
          \o Fmt(calendly_org_url))
OktaStartUrl(okta_base_url, group_id) ==
    PyStr(Fmt(okta_base_url) \o <<"/groups/">> \o Fmt(group_id) \o <<"/users">>)
\* The continuation URLs the servers hand out.
CalendlyPageUrl(k) ==
    PyStr(<<"https://api.calendly.com/organization_memberships?page_token=", ToString(k)>>)
OktaPageUrl(k) == PyStr(<<"okta/groups/users?after=", ToString(k)>>)

\* The place of a URL in its source's chain: 0 for the start URL.
Rank(u) ==
    IF \E k \in 1..(MaxPages - 1) : u \in {CalendlyPageUrl(k), OktaPageUrl(k)}
    THEN CHOOSE k \in 1..(MaxPages - 1) : u \in {CalendlyPageUrl(k), OktaPageUrl(k)}
    ELSE 0

\* What Calendly may answer to a GET of u: an error, or a page whose
\* pagination names a later page, None or "", or is missing altogether.
CalendlyResponses(u) ==
    { [status_code |-> s, json |-> EmptyDict] : s \in StatusCodes \ {200} }
    \cup { [status_code |-> 200,
            json |-> [collection |-> c, pagination |-> [next_page |-> n]]] :
             c \in CalendlyCollections,
             n \in {PyNone, EmptyStr}
                   \cup {CalendlyPageUrl(k) : k \in (Rank(u) + 1)..(MaxPages - 1)} }
    \cup { [status_code |-> 200, json |-> [collection |-> c]] : c \in CalendlyCollections }

\* What Okta may answer: an error, or a page whose Link header has a
\* rel="next" to a later page or to "", or has none.
OktaResponses(u) ==
    { [status_code |-> s, json |-> <<>>, links |-> EmptyDict] : s \in StatusCodes \ {200} }
    \cup { [status_code |-> 200, json |-> b, links |-> [next |-> [url |-> n]]] :
             b \in OktaBodies,
             n \in {EmptyStr} \cup {OktaPageUrl(k) : k \in (Rank(u) + 1)..(MaxPages - 1)} }
    \cup { [status_code |-> 200, json |-> b, links |-> l] :
             b \in OktaBodies, l \in {EmptyDict, [self |-> [url |-> u]]} }

SlackResponses == { [status_code |-> s] : s \in StatusCodes }

\* ------------------------------------------------------------------ state
VARIABLES
    env,              \* the process environment: name -> None, "" or a value
    pc,               \* where main is
    error,            \* the exception that ended the run, if any
    TOTAL_LICENSES,   \* the module global of line 38
    url,              \* the fetchers' local url
    users,            \* fetch_calendly_users' list of membership records
    users_by_email,   \* fetch_okta_group_members' dict users: email -> record
    calendly_users,   \* main's local: the set fetch_calendly_users returned
    okta_users,       \* main's local: the set fetch_okta_group_members returned
    license_counts,   \* main's local: the dict calculate_license_counts returned
    alert_message,    \* main's local: the rendered text
    http_log,         \* history: the HTTP requests of this run with their answers
    served,           \* history: the raw records the two sources served this run
    run,              \* history: the number of this run
    prev_runs,        \* history: what the earlier runs requested and posted
    world             \* the servers' content when it is fixed for several runs

vars == <<env, pc, error, TOTAL_LICENSES, url, users, users_by_email, calendly_users,
          okta_users, license_counts, alert_message, http_log, served, run, prev_runs,
          world>>

\* main's and the fetchers' locals, the module global apart.
locals == <<url, users, users_by_email, calendly_users, okta_users, license_counts,
            alert_message>>
history == <<run, prev_runs, world>>

\* One entry of http_log.  next is the continuation pointer the answer carried.
Request(src, method, u, payload, status_code, next) ==
    [src |-> src, method |-> method, url |-> u, json |-> payload,
     status_code |-> status_code, next |-> next]

\* The state of a process that has executed the module body (line 38) and is
\* about to call main (line 137).
Fresh ==
    /\ pc = "main"
    /\ error = PyNone
    /\ TOTAL_LICENSES = AllocatedLicenses
    /\ url = PyNone
    /\ users = <<>>
    /\ users_by_email = EmptyDict
    /\ calendly_users = {}
    /\ okta_users = {}
    /\ license_counts = PyNone
    /\ alert_message = PyNone
    /\ http_log = <<>>
    /\ served = [calendly |-> {}, okta |-> {}]

Init ==
    /\ env \in [EnvNames -> EnvValues]
    /\ Fresh
    /\ run = 1
    /\ prev_runs = <<>>
    /\ world = EmptyDict

\* ------------------------------------------------------------------- main
\* any([...]) in the place of all([...]).
AllSet_any(values) == \E v \in values : Truthy(v)

\* all([...]) over the six values read with os.getenv.
AllSet(values) == \A v \in values : Truthy(v)

\* Lines 93-101: read the environment, raise ValueError if anything is missing.
main_env ==
    /\ pc = "main"
    /\ IF ~AllSet({env[n] : n \in EnvNames})
       THEN /\ pc' = "failed"
            /\ error' = PyStr(<<"ValueError", "Missing required environment variables.">>)
       ELSE /\ pc' = "fetch_calendly_users"
            /\ UNCHANGED error
    /\ UNCHANGED <<env, TOTAL_LICENSES, locals, http_log, served, history>>

\* -------------------------------------------------- fetch_calendly_users
\* Lines 105, 42-44: the call, users = [] and the first URL.
fetch_calendly_users_enter ==
    /\ pc = "fetch_calendly_users"
    /\ users' = <<>>
    /\ url' = CalendlyStartUrl(env["CALENDLY_ORG_URL"])
    /\ pc' = "calendly_loop"
    /\ UNCHANGED <<env, error, TOTAL_LICENSES, users_by_email, calendly_users, okta_users,
                   license_counts, alert_message, http_log, served, history>>

\* The url the loop of lines 46-51 goes on with after a page.
CalendlyNextUrl(data) == DictGet(DictGet(data, "pagination", EmptyDict), "next_page", PyNone)

\* users = items in the place of users.extend(items): only the last page stays.
Extend_replace(list, items) == items

\* Line 50: users.extend(items).
Extend(list, items) == list \o items

\* The emails a Calendly answer carries, as spelled (for the history only).
CalendlyServed(response) ==
    IF response.status_code = 200
    THEN {response.json.collection[i].user.email : i \in 1..Len(response.json.collection)}
    ELSE {}

\* Lines 46-51: one pass of the loop, answered by response.
fetch_calendly_users_get(response) ==
    /\ pc = "calendly_loop"
    /\ Truthy(url)
    /\ IF RaisesForStatus(response.status_code)
       THEN /\ pc' = "failed"
            /\ error' = PyStr(<<"HTTPError">>)
            /\ http_log' = Append(http_log,
                   Request("calendly", "GET", url, PyNone, response.status_code, PyNone))
            /\ UNCHANGED <<users, url, served>>
       ELSE LET data == response.json
            IN /\ users' = Extend(users, DictGet(data, "collection", <<>>))
               /\ url' = CalendlyNextUrl(data)
               /\ http_log' = Append(http_log,
                      Request("calendly", "GET", url, PyNone, response.status_code,
                              CalendlyNextUrl(data)))
               /\ served' = [served EXCEPT !.calendly = @ \cup CalendlyServed(response)]
               /\ UNCHANGED <<pc, error>>
    /\ UNCHANGED <<env, TOTAL_LICENSES, users_by_email, calendly_users, okta_users,
                   license_counts, alert_message, history>>

\* Line 53: the set of lower-cased emails.
CalendlyEmails(us) == {Lower(us[i].user.email) : i \in 1..Len(us)}

\* Lines 46, 53, 105: the loop ends on a falsy url; main binds the set returned
\* and the function's locals are gone.
fetch_calendly_users_return ==
    /\ pc = "calendly_loop"
    /\ ~Truthy(url)
    /\ calendly_users' = CalendlyEmails(users)
    /\ users' = <<>>
    /\ url' = PyNone
    /\ pc' = "fetch_okta_group_members"
    /\ UNCHANGED <<env, error, TOTAL_LICENSES, users_by_email, okta_users,
                   license_counts, alert_message, http_log, served, history>>

\* ---------------------------------------------- fetch_okta_group_members
\* Lines 108, 57-59: the call, users = {} and the first URL.
fetch_okta_group_members_enter ==
    /\ pc = "fetch_okta_group_members"
    /\ users_by_email' = EmptyDict
    /\ url' = OktaStartUrl(env["OKTA_BASE_URL"], env["OKTA_CALENDLY_GROUP_ID"])
    /\ pc' = "okta_loop"
    /\ UNCHANGED <<env, error, TOTAL_LICENSES, users, calendly_users, okta_users,
                   license_counts, alert_message, http_log, served, history>>

\* Lines 65-68 with a filter on the status: only ACTIVE users are stored.
OktaCollect_active(dict, data) ==
    LET active == SelectSeq(data, LAMBDA u : u.status = "ACTIVE")
        email == <<>> \o [i \in 1..Len(active) |-> Lower(active[i].profile.email)]
        keys == {email[i] : i \in 1..Len(active)}
        last(k) == LET at == {i \in 1..Len(active) : email[i] = k}
                   IN CHOOSE i \in at : \A j \in at : j <= i
    IN [k \in (DOMAIN dict) \cup keys |-> IF k \in keys THEN active[last(k)] ELSE dict[k]]

\* Lines 65-68: every user of the page is stored under its lower-cased email,
\* whatever its status; of two users with one email the later one stays.
OktaCollect(dict, data) ==
    LET email == <<>> \o [i \in 1..Len(data) |-> Lower(data[i].profile.email)]
        keys == {email[i] : i \in 1..Len(data)}
        last(k) == LET at == {i \in 1..Len(data) : email[i] = k}
                   IN CHOOSE i \in at : \A j \in at : j <= i
    IN [k \in (DOMAIN dict) \cup keys |-> IF k \in keys THEN data[last(k)] ELSE dict[k]]

\* Line 69: response.links.get("next", {}).get("url")
OktaNextUrl(response) == DictGet(DictGet(response.links, "next", EmptyDict), "url", PyNone)

\* The user records an Okta answer carries (for the history only).
OktaServed(response) ==
    IF response.status_code = 200
    THEN {response.json[i] : i \in 1..Len(response.json)}
    ELSE {}

\* Lines 61-69: one pass of the loop, answered by response.
fetch_okta_group_members_get(response) ==
    /\ pc = "okta_loop"
    /\ Truthy(url)
    /\ IF RaisesForStatus(response.status_code)
       THEN /\ pc' = "failed"
            /\ error' = PyStr(<<"HTTPError">>)
            /\ http_log' = Append(http_log,
                   Request("okta", "GET", url, PyNone, response.status_code, PyNone))
            /\ UNCHANGED <<users_by_email, url, served>>
       ELSE /\ users_by_email' = OktaCollect(users_by_email, response.json)
            /\ url' = OktaNextUrl(response)
            /\ http_log' = Append(http_log,
                   Request("okta", "GET", url, PyNone, response.status_code,
                           OktaNextUrl(response)))
            /\ served' = [served EXCEPT !.okta = @ \cup OktaServed(response)]
            /\ UNCHANGED <<pc, error>>
    /\ UNCHANGED <<env, TOTAL_LICENSES, users, calendly_users, okta_users,
                   license_counts, alert_message, history>>

\* Lines 61, 71, 108: the loop ends on a falsy url; main binds set(users.keys())
\* and the function's locals are gone.
fetch_okta_group_members_return ==
    /\ pc = "okta_loop"
    /\ ~Truthy(url)
    /\ okta_users' = DOMAIN users_by_email
    /\ users_by_email' = EmptyDict
    /\ url' = PyNone
    /\ pc' = "calculate_license_counts"
    /\ UNCHANGED <<env, error, TOTAL_LICENSES, users, calendly_users,
                   license_counts, alert_message, http_log, served, history>>

\* ---------------------------------------------- calculate_license_counts
\* Lines 75-82 with the subtraction turned round.
calculate_license_counts_flipped(c_users, o_users) ==
    LET matched_users == c_users \cap o_users
        licenses_used == Cardinality(matched_users)
        licenses_available == licenses_used - TOTAL_LICENSES
    IN [total_licenses |-> TOTAL_LICENSES,
        licenses_used |-> licenses_used,
        licenses_available |-> licenses_available]

\* Lines 75-82 with the intersection left out: every Calendly user counts.
calculate_license_counts_all(c_users, o_users) ==
    LET matched_users == c_users
        licenses_used == Cardinality(matched_users)
        licenses_available == TOTAL_LICENSES - licenses_used
    IN [total_licenses |-> TOTAL_LICENSES,
        licenses_used |-> licenses_used,
        licenses_available |-> licenses_available]

\* Lines 75-82.
calculate_license_counts(c_users, o_users) ==
    LET matched_users == c_users \cap o_users
        licenses_used == Cardinality(matched_users)
        licenses_available == TOTAL_LICENSES - licenses_used
    IN [total_licenses |-> TOTAL_LICENSES,
        licenses_used |-> licenses_used,
        licenses_available |-> licenses_available]

\* Line 112 with a function that takes the used licenses off the global.
main_calculate_writes_total ==
    /\ pc = "calculate_license_counts"
    /\ license_counts' = calculate_license_counts(calendly_users, okta_users)
    /\ TOTAL_LICENSES' = TOTAL_LICENSES - license_counts'.licenses_used
    /\ pc' = "alert_message"
    /\ UNCHANGED <<env, error, url, users, users_by_email, calendly_users,
                   okta_users, alert_message, http_log, served, history>>

\* Line 112: main binds the dict returned; the function writes nothing else.
main_calculate ==
    /\ pc = "calculate_license_counts"
    /\ license_counts' = calculate_license_counts(calendly_users, okta_users)
    /\ pc' = "alert_message"
    /\ UNCHANGED <<env, error, TOTAL_LICENSES, url, users, users_by_email, calendly_users,
                   okta_users, alert_message, http_log, served, history>>

\* ----------------------------------------------------------- the message
\* Lines 116-122.  A formatted number is kept as a pair of its label and value.
OverageMessage(counts, total) ==
    PyStr(<<":rotating_light:calendly: *Calendly License Alert* :calendly::rotating_light:",
            <<"Used Licenses: ", counts.licenses_used>>,
            <<"Total Licenses: ", counts.total_licenses>>,
            <<"Overage: ", counts.licenses_used - total>>,
            "*Immediate action required to resolve the overage.*">>)

\* Lines 124-130.
NormalMessage(counts) ==
    PyStr(<<":calendly: *Calendly License Report* :calendly:",
            <<"Used Licenses: ", counts.licenses_used>>,
            <<"Total Licenses: ", counts.total_licenses>>,
            <<"Available Licenses: ", counts.licenses_available>>,
            "*All licenses are within the allocated limit.*">>)

\* The branch taken from used >= total on.
SelectMessage_ge(counts, total) ==
    IF counts.licenses_used >= total
    THEN OverageMessage(counts, total)
    ELSE NormalMessage(counts)

\* Lines 115-130: the one branch of main.
SelectMessage(counts, total) ==
    IF counts.licenses_used > total
    THEN OverageMessage(counts, total)
    ELSE NormalMessage(counts)

main_alert_message ==
    /\ pc = "alert_message"
    /\ alert_message' = SelectMessage(license_counts, TOTAL_LICENSES)
    /\ pc' = "post_to_slack"
    /\ UNCHANGED <<env, error, TOTAL_LICENSES, url, users, users_by_email, calendly_users,
                   okta_users, license_counts, http_log, served, history>>

\* ---------------------------------------------------------- post_to_slack
\* post_to_slack in a polling loop: after the POST the run starts over.
post_to_slack_again(response) ==
    /\ pc = "post_to_slack"
    /\ http_log' = Append(http_log,
           Request("slack", "POST", env["SLACK_WEBHOOK_URL"], [text |-> alert_message],
                   response.status_code, PyNone))
    /\ IF RaisesForStatus(response.status_code)
       THEN /\ pc' = "failed"
            /\ error' = PyStr(<<"HTTPError">>)
       ELSE /\ pc' = "fetch_calendly_users"
            /\ UNCHANGED error
    /\ UNCHANGED <<env, TOTAL_LICENSES, locals, served, history>>

\* Lines 134, 86-88: one POST of {"text": message}; a 4xx or 5xx raises.
post_to_slack(response) ==
    /\ pc = "post_to_slack"
    /\ http_log' = Append(http_log,
           Request("slack", "POST", env["SLACK_WEBHOOK_URL"], [text |-> alert_message],
                   response.status_code, PyNone))
    /\ IF RaisesForStatus(response.status_code)
       THEN /\ pc' = "failed"
            /\ error' = PyStr(<<"HTTPError">>)
       ELSE /\ pc' = "done"
            /\ UNCHANGED error
    /\ UNCHANGED <<env, TOTAL_LICENSES, locals, served, history>>

\* ------------------------------------------------------- one run of main
Next ==
    \/ main_env
    \/ fetch_calendly_users_enter
    \/ \E response \in CalendlyResponses(url) : fetch_calendly_users_get(response)
    \/ fetch_calendly_users_return
    \/ fetch_okta_group_members_enter
    \/ \E response \in OktaResponses(url) : fetch_okta_group_members_get(response)
    \/ fetch_okta_group_members_return
    \/ main_calculate
    \/ main_alert_message
    \/ \E response \in SlackResponses : post_to_slack(response)

Spec == Init /\ [][Next]_vars

\* ------------------------------------- calculate_license_counts on its own
\* The sets calculate_license_counts is applied to: emails as spelled, small
\* sets and sets of more than 65.
BulkSet == {BulkLower(i) : i \in 0..(BulkSize - 1)}
InputSets ==
    {small \cup bulk : small \in SUBSET {Email_a, Email_A, Email_b, Email_c},
                       bulk \in {{}, BulkSet}}

InitCalc ==
    /\ env = [n \in EnvNames |-> PyStr(<<"set">>)]
    /\ pc = "calculate_license_counts"
    /\ error = PyNone
    /\ TOTAL_LICENSES = AllocatedLicenses
    /\ url = PyNone
    /\ users = <<>>
    /\ users_by_email = EmptyDict
    /\ calendly_users \in InputSets
    /\ okta_users \in InputSets
    /\ license_counts = PyNone
    /\ alert_message = PyNone
    /\ http_log = <<>>
    /\ served = [calendly |-> {}, okta |-> {}]
    /\ run = 1
    /\ prev_runs = <<>>
    /\ world = EmptyDict

NextCalc == main_calculate

SpecCalc == InitCalc /\ [][NextCalc]_vars

\* ------------------------------------------ several runs, the servers fixed
\* The answers of a server whose content does not change between the runs: a
\* chain of at most WorldPages pages, each naming the next, the last one a
\* page that names none or an error.
CalendlyPage(c, n) ==
    [status_code |-> 200, json |-> [collection |-> c, pagination |-> [next_page |-> n]]]
OktaPage(b, n) ==
    [status_code |-> 200, json |-> b,
     links |-> IF n = PyNone THEN EmptyDict ELSE [next |-> [url |-> n]]]
CalendlyError == [status_code |-> 503, json |-> EmptyDict]
OktaError == [status_code |-> 503, json |-> <<>>, links |-> EmptyDict]

RECURSIVE CalendlyChains(_)
CalendlyChains(k) ==
    LET ends == {<<CalendlyError>>}
                \cup {<<CalendlyPage(c, PyNone)>> : c \in CalendlyCollections \ {<<>>}}
    IN IF k >= WorldPages
       THEN ends
       ELSE ends \cup {<<CalendlyPage(c, CalendlyPageUrl(k))>> \o rest :
                          c \in CalendlyCollections \ {<<>>}, rest \in CalendlyChains(k + 1)}

RECURSIVE OktaChains(_)
OktaChains(k) ==
    LET bodies == OktaBodies \ {<<>>, <<OktaUser(Email_b, "SUSPENDED")>>}
        ends == {<<OktaError>>} \cup {<<OktaPage(b, PyNone)>> : b \in bodies}
    IN IF k >= WorldPages
       THEN ends
       ELSE ends \cup {<<OktaPage(b, OktaPageUrl(k))>> \o rest :
                          b \in bodies, rest \in OktaChains(k + 1)}

Worlds ==
    [calendly : CalendlyChains(1), okta : OktaChains(1),
     slack : {[status_code |-> 200], [status_code |-> 503]}]

\* The answer of a fixed server to a GET of u.
Serve(chain, u) == chain[Rank(u) + 1]

\* What a run leaves behind for an observer: its requests and answers, its
\* exception and its message.
RunRecord == [http |-> http_log, error |-> error, message |-> alert_message]

InitRuns ==
    /\ env = [n \in EnvNames |-> PyStr(<<"set">>)]
    /\ Fresh
    /\ run = 1
    /\ prev_runs = <<>>
    /\ world \in Worlds

\* Lines 136-137 and 38: the script is started again; the new process executes
\* the module body and calls main, with nothing of the process before.
NewRun ==
    /\ pc \in {"done", "failed"}
    /\ run < MaxRuns
    /\ run' = run + 1
    /\ prev_runs' = Append(prev_runs, RunRecord)
    /\ pc' = "main"
    /\ error' = PyNone
    /\ TOTAL_LICENSES' = AllocatedLicenses
    /\ url' = PyNone
    /\ users' = <<>>
    /\ users_by_email' = EmptyDict
    /\ calendly_users' = {}
    /\ okta_users' = {}
    /\ license_counts' = PyNone
    /\ alert_message' = PyNone
    /\ http_log' = <<>>
    /\ served' = [calendly |-> {}, okta |-> {}]
    /\ UNCHANGED <<env, world>>

NextRuns ==
    \/ main_env
    \/ fetch_calendly_users_enter
    \/ fetch_calendly_users_get(Serve(world.calendly, url))
    \/ fetch_calendly_users_return
    \/ fetch_okta_group_members_enter
    \/ fetch_okta_group_members_get(Serve(world.okta, url))
    \/ fetch_okta_group_members_return
    \/ main_calculate
    \/ main_alert_message
    \/ post_to_slack(world.slack)
    \/ NewRun

SpecRuns == InitRuns /\ [][NextRuns]_vars

\* ------------------------------------------------------------ properties
\* Helpers of the properties: the requests of one source, in order.
LogOf(src) == SelectSeq(http_log, LAMBDA r : r.src = src)
Failed(r) == r.status_code >= 400
GetsOfFailed == {i \in 1..Len(http_log) : http_log[i].method = "GET" /\ Failed(http_log[i])}
Posts == {i \in 1..Len(http_log) : http_log[i].method = "POST"}

\* C1: a run with one of the six variables absent ends in the ValueError of
\* line 101 and issues no HTTP request at all.
C1_MissingEnvAborts ==
    (\E n \in EnvNames : env[n] = PyNone) =>
        /\ http_log = <<>>
        /\ pc \in {"main", "failed"}
        /\ pc = "failed" => error.v[1] = "ValueError"

\* C1's case: exactly one variable is absent, the other five hold values, and
\* main has raised.
C1_Witness ==
    /\ pc = "failed"
    /\ \E n \in EnvNames :
          /\ env[n] = PyNone
          /\ \A m \in EnvNames \ {n} : Truthy(env[m])

C3_TemplateByUsage ==
    alert_message # PyNone =>
        LET used == license_counts.licenses_used
            text == alert_message.v
            overage == /\ text[1] = ":rotating_light:calendly: *Calendly License Alert* :calendly::rotating_light:"
                       /\ text[4] = <<"Overage: ", used - 65>>
                       /\ used - 65 > 0
            normal == /\ text[1] = ":calendly: *Calendly License Report* :calendly:"
                      /\ text[4] = <<"Available Licenses: ", 65 - used>>
                      /\ 65 - used >= 0
        IN /\ overage <=> used > 65
           /\ normal <=> used <= 65
           /\ overage <=> ~normal
           /\ used > 65 <=> license_counts.licenses_available < 0
           /\ text[2] = <<"Used Licenses: ", used>>

\* C3's case: the boundary, 65 matched emails, reported with the normal template.
C3_Witness ==
    /\ pc = "done"
    /\ license_counts.licenses_used = 65
    /\ alert_message.v[4] = <<"Available Licenses: ", 0>>

\* A chain of GETs of one source: the first to the start URL, each next one to
\* the URL the page before named, every page but the last naming one.
Chained(log, start) ==
    /\ Len(log) >= 1
    /\ log[1].url = start
    /\ \A k \in 1..Len(log) : log[k].method = "GET" /\ log[k].status_code = 200
    /\ \A k \in 2..Len(log) : log[k].url = log[k - 1].next
    /\ \A k \in 1..(Len(log) - 1) : log[k].next \notin {PyNone, EmptyStr}
    /\ log[Len(log)].next \in {PyNone, EmptyStr}

\* C5: a fetcher that returns has issued exactly the GETs of the chain the
\* source served, and returns the lower-cased emails of all its pages.
C5_PaginationCollectsAll ==
    /\ pc \in {"fetch_okta_group_members", "okta_loop", "calculate_license_counts",
               "alert_message", "post_to_slack", "done"} =>
          /\ Chained(LogOf("calendly"), CalendlyStartUrl(env["CALENDLY_ORG_URL"]))
          /\ calendly_users = {Lower(e) : e \in served.calendly}
    /\ pc \in {"calculate_license_counts", "alert_message", "post_to_slack", "done"} =>
          /\ Chained(LogOf("okta"),
                     OktaStartUrl(env["OKTA_BASE_URL"], env["OKTA_CALENDLY_GROUP_ID"]))
          /\ okta_users = {Lower(u.profile.email) : u \in served.okta}
    /\ pc = "calendly_loop" /\ http_log # <<>> => url = http_log[Len(http_log)].next
    /\ pc = "okta_loop" /\ LogOf("okta") # <<>> => url = http_log[Len(http_log)].next

\* C5's case: both sources served three pages, and the set of Calendly holds
\* the emails of all three.
C5_Witness ==
    /\ pc = "calculate_license_counts"
    /\ Len(LogOf("calendly")) = 3
    /\ Len(LogOf("okta")) = 3
    /\ Cardinality(calendly_users) = BulkSize + 3
    /\ Cardinality(okta_users) > BulkSize

\* Case folding stated without str.lower(): 'a'..'z' to 'A'..'Z'.
Upper(s) == [i \in 1..Len(s) |-> IF s[i] \in 97..122 THEN s[i] - 32 ELSE s[i]]

\* C6: the used count is the number of emails, told apart only up to letter
\* case, that both sources served; the emails kept hold no capital letter.
C6_CaseInsensitiveDistinct ==
    license_counts # PyNone =>
        /\ license_counts.licenses_used =
              Cardinality({Upper(e) : e \in served.calendly}
                          \cap {Upper(u.profile.email) : u \in served.okta})
        /\ \A e \in calendly_users \cup okta_users : \A i \in 1..Len(e) : e[i] \notin 65..90

\* C6's case: Calendly served "A@x" and "a@x", Okta served "a@X" and "A@x",
\* and they count as one match.
C6_Witness ==
    /\ pc = "done"
    /\ served.calendly = {Email_A, Email_a}
    /\ {u.profile.email : u \in served.okta} = {Email_aX, Email_A}
    /\ license_counts.licenses_used = 1

\* C8: what fetch_okta_group_members returns depends on the emails served
\* alone, not on the status served with them, and a suspended member that
\* Calendly lists too is among the matched.
C8_StatusIgnored ==
    pc \in {"calculate_license_counts", "alert_message", "post_to_slack", "done"} =>
        /\ okta_users = {Lower(e) : e \in {u.profile.email : u \in served.okta}}
        /\ \A u \in served.okta :
              (u.status = "SUSPENDED" /\ Lower(u.profile.email) \in calendly_users) =>
                  /\ Lower(u.profile.email) \in calendly_users \cap okta_users
                  /\ license_counts # PyNone => license_counts.licenses_used >= 1

\* C8's case: Okta served "b@x" only as SUSPENDED, Calendly lists it, and it is
\* a used license in the message posted.
C8_Witness ==
    /\ pc = "done"
    /\ served.okta = {OktaUser(Email_b, "SUSPENDED")}
    /\ Email_b \in calendly_users
    /\ license_counts.licenses_used = 1
    /\ alert_message.v[2] = <<"Used Licenses: ", 1>>

\* The place of a request's source, and of a control point, in the run.
SrcOrder(src) == CASE src = "calendly" -> 1 [] src = "okta" -> 2 [] src = "slack" -> 3
PcOrder(p) ==
    CASE p = "main" -> 0
      [] p = "fetch_calendly_users" -> 1
      [] p = "calendly_loop" -> 2
      [] p = "fetch_okta_group_members" -> 3
      [] p = "okta_loop" -> 4
      [] p = "calculate_license_counts" -> 5
      [] p = "alert_message" -> 6
      [] p = "post_to_slack" -> 7
      [] p = "done" -> 8
      [] p = "failed" -> 8

\* The log of a run: Calendly's GETs, then Okta's, then at most one POST, the
\* GETs of Okta only after Calendly's last page, the POST only after Okta's
\* last page and the reconciliation; a finished run has exactly one POST.
C9_LogInOrder ==
    /\ \A i, j \in 1..Len(http_log) :
          i < j => SrcOrder(http_log[i].src) <= SrcOrder(http_log[j].src)
    /\ \A i \in 1..Len(http_log) :
          (http_log[i].method = "POST") <=> (http_log[i].src = "slack")
    /\ Cardinality(Posts) <= 1
    /\ LogOf("okta") # <<>> =>
          LET c == LogOf("calendly") IN c # <<>> /\ ~Truthy(c[Len(c)].next)
                                        /\ ~Failed(c[Len(c)])
    /\ Posts # {} =>
          LET o == LogOf("okta") IN /\ o # <<>> /\ ~Truthy(o[Len(o)].next) /\ ~Failed(o[Len(o)])
                                    /\ license_counts # PyNone
                                    /\ http_log[Len(http_log)].json = [text |-> alert_message]
    /\ pc = "done" => Cardinality(Posts) = 1 /\ error = PyNone

\* C9: the log is in that order in every state, and no step of a run goes
\* back to an earlier control point.
C9_LinearRun ==
    /\ []C9_LogInOrder
    /\ [][PcOrder(pc') >= PcOrder(pc)]_vars

\* C9's case: a run that ended after several GETs of each source and its POST.
C9_Witness ==
    /\ pc = "done"
    /\ Len(LogOf("calendly")) >= 2
    /\ Len(LogOf("okta")) >= 2
    /\ Len(LogOf("slack")) = 1

\* C4: the dict calculate_license_counts returned has total_licenses = 65,
\* licenses_used = the number of emails of the first set that are in the
\* second, licenses_available = 65 - licenses_used, negative exactly when more
\* than 65 match; so total = used + available, and the global is 65.
C4_Tally ==
    license_counts # PyNone =>
        /\ license_counts.total_licenses = 65
        /\ license_counts.licenses_used =
              Cardinality({e \in calendly_users : e \in okta_users})
        /\ license_counts.licenses_available = 65 - license_counts.licenses_used
        /\ license_counts.total_licenses =
              license_counts.licenses_used + license_counts.licenses_available
        /\ license_counts.licenses_available < 0 <=> license_counts.licenses_used > 65
        /\ TOTAL_LICENSES = 65

\* C4's case: 66 emails match and one license is missing.
C4_Witness ==
    /\ pc = "alert_message"
    /\ license_counts.licenses_used = 66
    /\ license_counts.licenses_available = -1

\* C7: the used count is the same with the two sets exchanged, and lies
\* between 0 and the size of the smaller set.
C7_UsedSymmetricBounded ==
    license_counts # PyNone =>
        /\ license_counts.licenses_used =
              calculate_license_counts(okta_users, calendly_users).licenses_used
        /\ license_counts.licenses_used >= 0
        /\ license_counts.licenses_used <= Cardinality(calendly_users)
        /\ license_counts.licenses_used <= Cardinality(okta_users)

\* C7's case: two sets of different sizes that share some but not all of the
\* smaller one.
C7_Witness ==
    /\ pc = "alert_message"
    /\ Cardinality(calendly_users) > Cardinality(okta_users)
    /\ license_counts.licenses_used > 0
    /\ license_counts.licenses_used < Cardinality(okta_users)

\* What every run starts from: no local bound, nothing logged, the global 65.
C10_FreshStart ==
    pc = "main" =>
        /\ TOTAL_LICENSES = 65
        /\ locals = <<PyNone, <<>>, EmptyDict, {}, {}, PyNone, PyNone>>
        /\ http_log = <<>> /\ error = PyNone

\* A finished run has requested, received and posted what every earlier run
\* against the same servers did.
C10_SameAsBefore ==
    pc \in {"done", "failed"} => \A r \in 1..Len(prev_runs) : prev_runs[r] = RunRecord

====
